---- MODULE Spec2Model ----
(***************************************************************************)
(* Model of src/src/jarvis_march-Rcpp.cpp: the gift-wrapping convex hull   *)
(* (point, triplet_of_points, find_leftmost_point, find_new_point,         *)
(* find_convex_hull, jarvis_march).                                        *)
(*                                                                         *)
(* Coordinates are small integers, on which the double arithmetic of the   *)
(* source is exact.  Indices into the point vector keep the source's       *)
(* 0-based values; the point with index i is points[i + 1].                *)
(***************************************************************************)
EXTENDS Integers, Sequences, FiniteSets, TLC

\* ---------------------------------------------------------------- bounds
MaxX == 1           \* x-coordinates range over 0 .. MaxX
MaxY == 3           \* y-coordinates range over 0 .. MaxY
MaxN == 3           \* every input of at most MaxN points on that grid is explored

CoordX == 0 .. MaxX
CoordY == 0 .. MaxY

VARIABLES
    x, y,                  \* jarvis_march: the two input vectors
    points,                \* std::vector<point> points
    convex_hull,           \* std::vector<int> convex_hull (0-based indices)
    convex_hull_points,    \* std::vector<point> convex_hull_points
    all_points_collinear,  \* bool all_points_collinear
    extending_steps,       \* number of iterations of the main while loop so far
    hull_x,                \* jarvis_march: the returned vector
    pc,                    \* position of the call
    p1, p2, p3,            \* triplet_of_points: constructor arguments
    determinent, dot_product, right_turn, collinearity   \* triplet_of_points fields

vars == << x, y, points, convex_hull, convex_hull_points, all_points_collinear,
           extending_steps, hull_x, pc,
           p1, p2, p3, determinent, dot_product, right_turn, collinearity >>

hullVars == << x, y, points, convex_hull, convex_hull_points, all_points_collinear,
               extending_steps, hull_x >>
tripletVars == << p1, p2, p3, determinent, dot_product, right_turn, collinearity >>

\* ---------------------------------------------------------------- point
Point(px, py) == [x |-> px, y |-> py]

\* ---------------------------------------------------- triplet_of_points
\* a = p1 - p2, b = p3 - p2; determinent = a.x * b.y - b.x * a.y
Determinent(q1, q2, q3) ==
    (q1.x - q2.x) * (q3.y - q2.y) - (q3.x - q2.x) * (q1.y - q2.y)

\* dot_product = a.x * b.x + a.y * b.y
DotProduct(q1, q2, q3) ==
    (q1.x - q2.x) * (q3.x - q2.x) + (q1.y - q2.y) * (q3.y - q2.y)

\* find_orientation: the value of right_turn after the call.  The member is
\* value-initialised to false (bool right_turn {}) and no branch of
\* find_orientation is taken when the determinant and the dot product are
\* both 0, so the member keeps that value.
\* variant: the sign test on the determinant reversed
RightTurnMirrored(det, dot) ==
    IF det < 0 THEN TRUE
    ELSE IF det = 0 /\ dot < 0 THEN TRUE
    ELSE FALSE

RightTurn(det, dot) ==
    IF det > 0 THEN TRUE
    ELSE IF det = 0 /\ dot < 0 THEN TRUE
    ELSE IF det = 0 /\ dot > 0 THEN FALSE
    ELSE IF det < 0 THEN FALSE
    ELSE FALSE

\* find_orientation: the value of collinearity after the call.
Collinearity(det, dot) ==
    IF det > 0 THEN FALSE
    ELSE IF det = 0 /\ dot < 0 THEN TRUE
    ELSE IF det = 0 /\ dot > 0 THEN TRUE
    ELSE IF det < 0 THEN FALSE
    ELSE FALSE

\* -------------------------------------------------- find_leftmost_point
\* leftmost_val starts at +infinity: [inf |-> TRUE] stands for it.
Infinity == [inf |-> TRUE, v |-> 0]

LessThan(px, val) == val.inf \/ px < val.v

\* variant: <= in place of <, so the last of several leftmost points wins
LessOrEqual(px, val) == val.inf \/ px <= val.v

RECURSIVE LeftmostScan(_, _, _, _)
LeftmostScan(pts, p, val, idx) ==
    IF p >= Len(pts) THEN idx
    ELSE IF LessThan(pts[p + 1].x, val)
         THEN LeftmostScan(pts, p + 1, [inf |-> FALSE, v |-> pts[p + 1].x], p)
         ELSE LeftmostScan(pts, p + 1, val, idx)

RECURSIVE LeftmostScanLast(_, _, _, _)
LeftmostScanLast(pts, p, val, idx) ==
    IF p >= Len(pts) THEN idx
    ELSE IF LessOrEqual(pts[p + 1].x, val)
         THEN LeftmostScanLast(pts, p + 1, [inf |-> FALSE, v |-> pts[p + 1].x], p)
         ELSE LeftmostScanLast(pts, p + 1, val, idx)

FindLeftmostLast(leftmost_val, pts) == LeftmostScanLast(pts, 0, leftmost_val, 0)

FindLeftmostPoint(leftmost_val, pts) == LeftmostScan(pts, 0, leftmost_val, 0)

\* ------------------------------------------------------- find_new_point
\* rand() % points.size(), redrawn until it is no exception: any index that
\* is no exception can be the result.
FindNewPoint(pts, exceptions) ==
    { i \in 0 .. Len(pts) - 1 : i \notin exceptions }

\* ----------------------------------------------------- find_convex_hull
\* std::find(convex_hull.begin(), convex_hull.end(), i) != convex_hull.end()
InHull(hull, i) == \E k \in 1 .. Len(hull) : hull[k] = i

\* std::find(convex_hull.begin() + 1, convex_hull.end(), i) != convex_hull.end()
InHullAfterFront(hull, i) == \E k \in 2 .. Len(hull) : hull[k] = i

\* One iteration of the for loop over test_point; s = [candidate, collinear].
TestStep(pts, hull, end, s, test_point) ==
    IF test_point # s.candidate /\ test_point # end
    THEN LET det == Determinent(pts[end + 1], pts[test_point + 1], pts[s.candidate + 1])
             dot == DotProduct(pts[end + 1], pts[test_point + 1], pts[s.candidate + 1])
             rt  == RightTurn(det, dot)
             col == Collinearity(det, dot)
             c1  == IF rt THEN test_point ELSE s.candidate
             c2  == IF col /\ InHull(hull, c1) /\ ~InHullAfterFront(hull, test_point)
                    THEN test_point ELSE c1
         IN  [candidate |-> c2,
              collinear |-> IF col THEN s.collinear ELSE FALSE]
    ELSE s

RECURSIVE Sweep(_, _, _, _, _)
Sweep(pts, hull, end, s, test_point) ==
    IF test_point >= Len(pts) THEN s
    ELSE Sweep(pts, hull, end, TestStep(pts, hull, end, s, test_point), test_point + 1)

\* variant: only a return to the first hull index ends the loop
ClosesOnFrontOnly(hull, candidate) == hull[1] = candidate

\* "is the hull complete?": the index just pushed occurs before the last slot.
HullComplete(hull, candidate) == InHull(hull, candidate)

\* The body of the main while loop for one drawn candidate:
\* the new hull, the flag, and whether the loop goes on.
ExtendWith(pts, hull, flag, drawn) ==
    LET end    == hull[Len(hull)]
        s      == Sweep(pts, hull, end, [candidate |-> drawn, collinear |-> flag], 0)
        pushed == Append(hull, s.candidate)
        closed == HullComplete(hull, s.candidate)
    IN  [hull |-> IF closed /\ hull[1] = s.candidate THEN hull ELSE pushed,
         collinear |-> s.collinear,
         not_complete_hull |-> ~closed]

\* all_points_collinear == false: the points at the recorded indices.
Materialize(pts, hull) == [k \in 1 .. Len(hull) |-> pts[hull[k] + 1]]

\* all_points_collinear == true: push convex_hull[i] while it does not occur in
\* [begin, begin + (i - 1)); break at the first one that does.
RECURSIVE RebuildFrom(_, _, _, _)
RebuildFrom(pts, hull, i, out) ==
    IF i >= Len(hull) THEN out
    ELSE IF i = 0
         THEN RebuildFrom(pts, hull, i + 1, Append(out, pts[hull[i + 1] + 1]))
         ELSE IF ~(\E k \in 1 .. i - 1 : hull[k] = hull[i + 1])
              THEN RebuildFrom(pts, hull, i + 1, Append(out, pts[hull[i + 1] + 1]))
              ELSE out

Rebuild(pts, hull) == RebuildFrom(pts, hull, 0, << >>)

\* ------------------------------------------------------------ the inputs
\* Inputs of more than MaxN points: a square with its centre, four points on
\* a horizontal line, a triangle with an interior point (no three of the four
\* collinear), four points on a vertical line whose first point is not an
\* end of the line, and a triangle whose first point lies inside its left edge.
SquareWithInterior ==
    [x |-> << 0, 0, 2, 2, 1 >>, y |-> << 0, 2, 2, 0, 1 >>]
FourOnALine ==
    [x |-> << 0, 1, 2, 3 >>, y |-> << 0, 0, 0, 0 >>]
TriangleWithInterior ==
    [x |-> << 0, 2, 1, 1 >>, y |-> << 0, 1, 2, 1 >>]
VerticalLineFromInside ==
    [x |-> << 0, 0, 0, 0 >>, y |-> << 1, 0, 2, 3 >>]
AnchorInsideLeftEdge ==
    [x |-> << 0, 0, 0, 1 >>, y |-> << 1, 0, 2, 1 >>]
ExampleInputs ==
    { SquareWithInterior, FourOnALine, TriangleWithInterior,
      VerticalLineFromInside, AnchorInsideLeftEdge }

\* no triplet_of_points object is held between the calls of a run
IdleTriplet ==
    /\ p1 = Point(0, 0) /\ p2 = Point(0, 0) /\ p3 = Point(0, 0)
    /\ determinent = 0 /\ dot_product = 0
    /\ right_turn = FALSE /\ collinearity = FALSE

\* The state at the entry of jarvis_march(x, y), x and y of equal length.
Init ==
    /\ \/ \E n \in 0 .. MaxN : x \in [1 .. n -> CoordX] /\ y \in [1 .. n -> CoordY]
       \/ \E e \in ExampleInputs : x = e.x /\ y = e.y
    /\ points = << >>
    /\ convex_hull = << >>
    /\ convex_hull_points = << >>
    /\ all_points_collinear = TRUE
    /\ extending_steps = 0
    /\ hull_x = << >>
    /\ pc = "jarvis_march"
    /\ IdleTriplet

\* ---------------------------------------------------------- jarvis_march
\* read points, then call find_convex_hull(points)
ReadPoints ==
    /\ pc = "jarvis_march"
    /\ points' = [i \in 1 .. Len(x) |-> Point(x[i], y[i])]
    /\ pc' = "find_convex_hull"
    /\ UNCHANGED << x, y, convex_hull, convex_hull_points, all_points_collinear,
                    extending_steps, hull_x >>
    /\ UNCHANGED tripletVars

\* points.size() == 0
NoPoints ==
    /\ pc = "find_convex_hull"
    /\ Len(points) = 0
    /\ pc' = "return"
    /\ UNCHANGED hullVars
    /\ UNCHANGED tripletVars

\* points.size() == 1
OnePoint ==
    /\ pc = "find_convex_hull"
    /\ Len(points) = 1
    /\ convex_hull_points' = Append(convex_hull_points, points[1])
    /\ pc' = "return"
    /\ UNCHANGED << x, y, points, convex_hull, all_points_collinear,
                    extending_steps, hull_x >>
    /\ UNCHANGED tripletVars

\* points.size() == 2
TwoPoints ==
    /\ pc = "find_convex_hull"
    /\ Len(points) = 2
    /\ LET leftmost_index  == FindLeftmostPoint(Infinity, points)
           rightmost_index == IF leftmost_index = 0 THEN 1 ELSE 0
       IN  /\ convex_hull' = << leftmost_index, rightmost_index >>
           /\ convex_hull_points' =
                  << points[leftmost_index + 1], points[rightmost_index + 1] >>
    /\ pc' = "return"
    /\ UNCHANGED << x, y, points, all_points_collinear, extending_steps, hull_x >>
    /\ UNCHANGED tripletVars

\* the general case: the leftmost point starts the hull
Anchoring ==
    /\ pc = "find_convex_hull"
    /\ Len(points) >= 3
    /\ convex_hull' = << FindLeftmostPoint(Infinity, points) >>
    /\ pc' = "while"
    /\ UNCHANGED << x, y, points, convex_hull_points, all_points_collinear,
                    extending_steps, hull_x >>
    /\ UNCHANGED tripletVars

\* one iteration of the main while loop.  The source's loop has no iteration
\* cap; the guard on extending_steps only keeps the model finite when the
\* loop would not close, and leaves room for one step more than the
\* number of points.
Extending ==
    /\ pc = "while"
    /\ extending_steps <= Len(points)
    /\ \E drawn \in FindNewPoint(points, { convex_hull[Len(convex_hull)] }) :
         LET r == ExtendWith(points, convex_hull, all_points_collinear, drawn)
         IN  /\ convex_hull' = r.hull
             /\ all_points_collinear' = r.collinear
             /\ pc' = IF r.not_complete_hull THEN "while" ELSE "assemble"
    /\ extending_steps' = extending_steps + 1
    /\ UNCHANGED << x, y, points, convex_hull_points, hull_x >>
    /\ UNCHANGED tripletVars

\* all_points_collinear == false
MaterializeHull ==
    /\ pc = "assemble"
    /\ all_points_collinear = FALSE
    /\ convex_hull_points' = Materialize(points, convex_hull)
    /\ pc' = "return"
    /\ UNCHANGED << x, y, points, convex_hull, all_points_collinear,
                    extending_steps, hull_x >>
    /\ UNCHANGED tripletVars

\* all_points_collinear == true
RebuildCollinear ==
    /\ pc = "assemble"
    /\ all_points_collinear = TRUE
    /\ convex_hull_points' = Rebuild(points, convex_hull)
    /\ pc' = "return"
    /\ UNCHANGED << x, y, points, convex_hull, all_points_collinear,
                    extending_steps, hull_x >>
    /\ UNCHANGED tripletVars

\* back in jarvis_march: the x-coordinates of the hull are returned
ReturnHullX ==
    /\ pc = "return"
    /\ hull_x' = [k \in 1 .. Len(convex_hull_points) |-> convex_hull_points[k].x]
    /\ pc' = "done"
    /\ UNCHANGED << x, y, points, convex_hull, convex_hull_points,
                    all_points_collinear, extending_steps >>
    /\ UNCHANGED tripletVars

Next ==
    \/ ReadPoints
    \/ NoPoints
    \/ OnePoint
    \/ TwoPoints
    \/ Anchoring
    \/ Extending
    \/ MaterializeHull
    \/ RebuildCollinear
    \/ ReturnHullX

Spec == Init /\ [][Next]_vars

\* The call is one sequential thread: a step that can be taken is taken.
FairSpec == Spec /\ WF_vars(Next)

\* ------------------------------------- triplet_of_points on its own
GridPoints == { Point(a, b) : a \in CoordX, b \in CoordY }

InitTriplet ==
    /\ p1 \in GridPoints /\ p2 \in GridPoints /\ p3 \in GridPoints
    /\ determinent = 0 /\ dot_product = 0
    /\ right_turn = FALSE /\ collinearity = FALSE
    /\ x = << >> /\ y = << >> /\ points = << >>
    /\ convex_hull = << >> /\ convex_hull_points = << >>
    /\ all_points_collinear = TRUE /\ extending_steps = 0 /\ hull_x = << >>
    /\ pc = "triplet"

\* triplet_of_points(p1, p2, p3)
Construct ==
    /\ pc = "triplet"
    /\ determinent' = Determinent(p1, p2, p3)
    /\ dot_product' = DotProduct(p1, p2, p3)
    /\ pc' = "constructed"
    /\ UNCHANGED << p1, p2, p3, right_turn, collinearity >>
    /\ UNCHANGED hullVars

\* triplet.find_orientation()
FindOrientation ==
    /\ pc = "constructed"
    /\ right_turn' = RightTurn(determinent, dot_product)
    /\ collinearity' = Collinearity(determinent, dot_product)
    /\ pc' = "oriented"
    /\ UNCHANGED << p1, p2, p3, determinent, dot_product >>
    /\ UNCHANGED hullVars

NextTriplet ==
    \/ Construct
    \/ FindOrientation

SpecTriplet == InitTriplet /\ [][NextTriplet]_vars

\* ------------------------------------------------- geometry of the claims
\* twice the signed area of (a, b, c): > 0 counter-clockwise, < 0 clockwise
Cross(a, b, c) == (b.x - a.x) * (c.y - a.y) - (b.y - a.y) * (c.x - a.x)

PointSet(s) == { s[k] : k \in DOMAIN s }

Between(v, a, b) == (a <= v /\ v <= b) \/ (b <= v /\ v <= a)

OnSegment(p, a, b) ==
    Cross(a, b, p) = 0 /\ Between(p.x, a.x, b.x) /\ Between(p.y, a.y, b.y)

InTriangle(p, a, b, c) ==
    IF Cross(a, b, c) # 0
    THEN LET d1 == Cross(a, b, p)
             d2 == Cross(b, c, p)
             d3 == Cross(c, a, p)
         IN  ~ ((d1 < 0 \/ d2 < 0 \/ d3 < 0) /\ (d1 > 0 \/ d2 > 0 \/ d3 > 0))
    ELSE OnSegment(p, a, b) \/ OnSegment(p, b, c) \/ OnSegment(p, a, c)

\* p lies in the convex hull of the finite set S (Caratheodory)
InConvexHullOf(p, S) == \E a \in S, b \in S, c \in S : InTriangle(p, a, b, c)

\* the successor of position k in a sequence read cyclically
CyclicNext(s, k) == IF k = Len(s) THEN 1 ELSE k + 1

AllCollinear(S) == \A a \in S, b \in S, c \in S : Cross(a, b, c) = 0

PairwiseDistinct(s) == \A i \in DOMAIN s, j \in DOMAIN s : i # j => s[i] # s[j]

NoThreeCollinear(s) ==
    \A i \in DOMAIN s, j \in DOMAIN s, k \in DOMAIN s :
        (i < j /\ j < k) => Cross(s[i], s[j], s[k]) # 0

GeneralPosition(s) == Len(s) >= 3 /\ PairwiseDistinct(s) /\ NoThreeCollinear(s)

\* the extreme points of S: those outside the convex hull of the others
ExtremePoints(S) == { p \in S : ~ InConvexHullOf(p, S \ {p}) }

\* the index of the first point whose x is minimal
FirstMinX(s) ==
    CHOOSE i \in DOMAIN s :
        /\ \A j \in DOMAIN s : s[i].x <= s[j].x
        /\ \A j \in DOMAIN s : j < i => s[j].x > s[i].x

Clockwise(s) ==
    \A k \in DOMAIN s :
        Cross(s[k], s[CyclicNext(s, k)], s[CyclicNext(s, CyclicNext(s, k))]) < 0

Returned == pc \in { "return", "done" }

NumPoints == Len(points)

\* the run in which find_new_point always draws the lowest index allowed
Lowest(S) == CHOOSE m \in S : \A o \in S : m <= o

RECURSIVE WalkLowest(_, _, _, _)
WalkLowest(pts, hull, flag, fuel) ==
    LET r == ExtendWith(pts, hull, flag, Lowest(FindNewPoint(pts, { hull[Len(hull)] })))
    IN  IF r.not_complete_hull /\ fuel > 0
        THEN WalkLowest(pts, r.hull, r.collinear, fuel - 1)
        ELSE r

LowestDrawHull(pts) ==
    LET r == WalkLowest(pts, << FindLeftmostPoint(Infinity, pts) >>, TRUE, Len(pts))
    IN  IF r.collinear THEN Rebuild(pts, r.hull) ELSE Materialize(pts, r.hull)

\* ------------------------------------------------------------ the claims

\* C1: for every input of n >= 3 points and every sequence of draws, every
\* input point lies on or inside the polygon of the returned points.  Stated
\* in its weakest reading: every input point lies in the convex hull of the
\* returned points (a point outside that is outside any polygon on them).
C1_InputInsideReturnedHull ==
    (Returned /\ NumPoints >= 3) =>
        \A i \in DOMAIN points :
            InConvexHullOf(points[i], PointSet(convex_hull_points))

\* C2: for n >= 3 points in general position and every sequence of draws
\* the returned sequence holds exactly the extreme points, each once, starts
\* at the first point of minimal x and turns clockwise at every consecutive
\* triple read cyclically; the square with its centre returns its four
\* corners (0,0), (0,2), (2,2), (2,0).
C2_GeneralPositionHull ==
    /\ (Returned /\ GeneralPosition(points)) =>
          /\ PointSet(convex_hull_points) = ExtremePoints(PointSet(points))
          /\ PairwiseDistinct(convex_hull_points)
          /\ convex_hull_points[1] = points[FirstMinX(points)]
          /\ Clockwise(convex_hull_points)
    /\ (Returned /\ x = SquareWithInterior.x /\ y = SquareWithInterior.y) =>
          convex_hull_points =
              << Point(0, 0), Point(0, 2), Point(2, 2), Point(2, 0) >>

\* C2 witness: a returned hull of a set in general position that leaves a
\* strictly interior input point out.
C2_Witness ==
    /\ pc = "done"
    /\ GeneralPosition(points)
    /\ \E i \in DOMAIN points : points[i] \notin PointSet(convex_hull_points)
    /\ Len(convex_hull_points) = 3

\* C3: when the n >= 3 input points are pairwise distinct and on one line,
\* the returned points are exactly the two end points of the line.
C3_CollinearReturnsEndpoints ==
    (Returned /\ NumPoints >= 3 /\ PairwiseDistinct(points)
              /\ AllCollinear(PointSet(points))) =>
        /\ PointSet(convex_hull_points) = ExtremePoints(PointSet(points))
        /\ Len(convex_hull_points) = 2

\* C4: the set of returned points does not depend on the indices drawn: every
\* run on an input returns the point set of the run on the same input in
\* which each draw is the lowest index allowed (so any two runs agree).
C4_DrawIndependent ==
    (Returned /\ NumPoints >= 3) =>
        PointSet(convex_hull_points) = PointSet(LowestDrawHull(points))

\* C5: for n >= 3, after the main loop no index occurs more than once in
\* convex_hull, the index sequence the output is built from.
C5_NoRepeatedHullIndex ==
    (pc \in { "assemble", "return", "done" } /\ NumPoints >= 3) =>
        \A i \in DOMAIN convex_hull, j \in DOMAIN convex_hull :
            i # j => convex_hull[i] # convex_hull[j]

\* C6: the sequence jarvis_march returns is no longer than its input, and is
\* empty only for an empty input.
C6_OutputLength ==
    pc = "done" =>
        /\ Len(hull_x) <= Len(x)
        /\ (Len(hull_x) = 0 => Len(x) = 0)

\* C7: for n >= 3 the main loop is closed after at most n iterations: while
\* it is still running fewer than n iterations have been made and a draw
\* is possible, so the n-th iteration at the latest ends it.
C7_ClosedWithinNSteps ==
    /\ extending_steps <= NumPoints
    /\ pc = "while" =>
          /\ extending_steps < NumPoints
          /\ FindNewPoint(points, { convex_hull[Len(convex_hull)] }) # { }
    /\ pc \in { "assemble", "return", "done" } /\ NumPoints >= 3 =>
          extending_steps >= 1

\* C7 witness: a walk that needed all n iterations to close.
C7_Witness ==
    /\ pc = "assemble"
    /\ NumPoints >= 3
    /\ extending_steps = NumPoints

\* C8: inputs of 0, 1 and 2 points bypass the walk: nothing, the point, and
\* both points with the smaller x first (index 0 first when the x are equal).
C8_SmallInputs ==
    (Returned /\ NumPoints <= 2) =>
        /\ extending_steps = 0
        /\ NumPoints = 0 => convex_hull_points = << >>
        /\ NumPoints = 1 => convex_hull_points = << points[1] >>
        /\ NumPoints = 2 =>
              convex_hull_points =
                  IF points[2].x < points[1].x
                  THEN << points[2], points[1] >>
                  ELSE << points[1], points[2] >>

\* C8 witness: two different points of equal x were returned, index 0 first.
C8_Witness ==
    /\ pc = "done"
    /\ NumPoints = 2
    /\ points[1].x = points[2].x
    /\ points[1] # points[2]
    /\ convex_hull_points = << points[1], points[2] >>

\* C9: after find_orientation the collinear flag is set exactly when the
\* determinant is 0; a triple with p1 = p2 or p3 = p2 is collinear and no
\* right turn.
C9_CollinearIffZeroDeterminant ==
    pc = "oriented" =>
        /\ collinearity <=> (determinent = 0)
        /\ (p1 = p2 \/ p3 = p2) => (collinearity /\ ~ right_turn)

\* C10: when the main loop has ended, all_points_collinear is true exactly
\* when all input points lie on one line (coincident points included).
C10_FlagIffAllCollinear ==
    (pc = "assemble" /\ NumPoints >= 3) =>
        (all_points_collinear <=> AllCollinear(PointSet(points)))

====
